---- MODULE Spec2Model ----
(***************************************************************************)
(* Model of the AR overlay frame pipeline (src/AROverlay.js) and of the    *)
(* homography smoothing filters (src/transformationSmoothening.js).        *)
(*                                                                         *)
(* JavaScript numbers are modelled as exact rationals <<n, d>> with d > 0  *)
(* in lowest terms; 3x3 homographies are 9-tuples of rationals in          *)
(* row-major order; an empty cv.Mat / null / undefined is the empty        *)
(* tuple << >>.                                                            *)
(***************************************************************************)
EXTENDS Integers, Sequences, FiniteSets, TLC

(***************************************************************************)
(* Bounds of the model                                                     *)
(***************************************************************************)
\* widest processing canvas explored (the code has no upper limit)
MaxWidth == 300
\* how many times startProcessing() may be invoked on one object
MaxStarts == 2
\* most overlay PNG frames loadOverlayPNGs() finds
MaxOverlayFrames == 1
\* number of smoother operations explored
MaxSmootherOps == 7
\* frame and reference keypoints in the matcher outputs fed to the filter alone
FilterKeypoints == 2
\* keypoints per frame in the matcher outputs fed to the pipeline
MaxKeypoints == 14
\* average qualities 0, 1/(10 Q), .., Q/(10 Q) = 0.1 fed to the indicator alone
QualitySteps == 80
\* processed ticks counted in the trace (the count saturates here)
MaxTicksCounted == 2

(***************************************************************************)
(* Exact rational arithmetic standing in for JavaScript doubles            *)
(***************************************************************************)
Abs(x) == IF x < 0 THEN -x ELSE x

RECURSIVE GCD(_, _)
GCD(a, b) == IF b = 0 THEN a ELSE GCD(b, a % b)

\* 0/0 as JavaScript computes it; the model never divides a nonzero number by 0
NaN == <<0, 0>>

R(n, d) ==
  LET s == IF d < 0 THEN -1 ELSE 1
      g == GCD(Abs(n), Abs(d))
  IN  IF d = 0 THEN NaN
      ELSE IF n = 0 THEN <<0, 1>>
      ELSE <<(s * n) \div g, (s * d) \div g>>

RInt(n) == <<n, 1>>
RAdd(a, b) == R(a[1] * b[2] + b[1] * a[2], a[2] * b[2])
RSub(a, b) == R(a[1] * b[2] - b[1] * a[2], a[2] * b[2])
RMul(a, b) == R(a[1] * b[1], a[2] * b[2])
RDiv(a, b) == R(a[1] * b[2], a[2] * b[1])
RAbs(a) == <<Abs(a[1]), a[2]>>
\* every comparison with NaN is false
RLt(a, b) == a[2] # 0 /\ b[2] # 0 /\ a[1] * b[2] < b[1] * a[2]
RLe(a, b) == a[2] # 0 /\ b[2] # 0 /\ a[1] * b[2] <= b[1] * a[2]
RMin(a, b) == IF RLe(a, b) THEN a ELSE b
RMax(a, b) == IF RLe(a, b) THEN b ELSE a

RECURSIVE RSum(_)
RSum(s) == IF s = << >> THEN RInt(0) ELSE RAdd(Head(s), RSum(Tail(s)))

Max(a, b) == IF a >= b THEN a ELSE b
Min(a, b) == IF a <= b THEN a ELSE b

(***************************************************************************)
(* Settings of the ARFeatureMatcher constructor                            *)
(***************************************************************************)
initialProcessingCanvasWidth == 100
matchDistanceThreshold == R(75, 100)
strongThreshold == R(75, 100)
displayingThresholdQuality == R(6, 100)
qualityIndicatorFadeRange == R(15, 1000)
qualityIndicatorMax == RAdd(displayingThresholdQuality, qualityIndicatorFadeRange)
targetFrameRate == 10
minProcessingCanvasWidth == 250
processingCanvasWidthStep == 20
nFramesForAveraging == 6
\* the gate of calculateTransformationAndOverlay
minMatchesForHomography == 5

None == << >>

(***************************************************************************)
(* Correspondence filter: ARFeatureMatcher.filterMatchesWithCrossCheck     *)
(* A DMatch is [queryIdx, trainIdx, distance]; indices are 0-based as in   *)
(* the source.  fwd[i+1] is sourceToTargetMatches.get(i), rev[j+1] is      *)
(* targetToSourceMatches.get(j).                                           *)
(***************************************************************************)
DMatch(q, t, dist) == [queryIdx |-> q, trainIdx |-> t, distance |-> dist]

\* mutant: the ratio test with < in place of <=
RatioTestStrict(d1, d2, t) == RLt(RInt(d1.distance), RMul(RInt(d2.distance), t))

\* dMatch1.distance <= dMatch2.distance * t
RatioTest(d1, d2, t) == RLe(RInt(d1.distance), RMul(RInt(d2.distance), t))

\* reverseMatch.size() > 0 && reverseMatch.get(0).trainIdx === dMatch1.queryIdx
CrossCheck(d1, rev) ==
  LET reverseMatch == rev[d1.trainIdx + 1]
  IN  Len(reverseMatch) > 0 /\ reverseMatch[1].trainIdx = d1.queryIdx

\* match.get(1) or targetToSourceMatches.get(trainIdx) is undefined: TypeError
FilterThrows(fwd, rev, t) ==
  \E k \in 1..Len(fwd) :
     \/ Len(fwd[k]) < 2
     \/ /\ RatioTest(fwd[k][1], fwd[k][2], t)
        /\ (fwd[k][1].trainIdx + 1) \notin DOMAIN rev

RECURSIVE GoodMatchesUpTo(_, _, _, _)
GoodMatchesUpTo(fwd, rev, t, k) ==
  IF k = 0 THEN << >>
  ELSE LET sofar == GoodMatchesUpTo(fwd, rev, t, k - 1)
           dMatch1 == fwd[k][1]
           dMatch2 == fwd[k][2]
       IN  IF RatioTest(dMatch1, dMatch2, t) /\ CrossCheck(dMatch1, rev)
           THEN Append(sofar, dMatch1)
           ELSE sofar

RECURSIVE PerfectMatchCount(_, _)
PerfectMatchCount(fwd, k) ==
  IF k = 0 THEN 0
  ELSE PerfectMatchCount(fwd, k - 1)
       + (IF RatioTest(fwd[k][1], fwd[k][2], strongThreshold) THEN 1 ELSE 0)

\* the value returned: None when the body threw and the catch logged it
filterMatchesWithCrossCheck(fwd, rev, t) ==
  IF FilterThrows(fwd, rev, t) THEN None
  ELSE <<GoodMatchesUpTo(fwd, rev, t, Len(fwd)),
         R(PerfectMatchCount(fwd, Len(fwd)), Len(fwd))>>

(***************************************************************************)
(* Quality tracker                                                         *)
(***************************************************************************)
\* mutant: a full history drops the new score instead of the oldest
PushQualityKeepOldest(hist, q) ==
  IF Len(hist) >= nFramesForAveraging THEN hist ELSE Append(hist, q)

\* qualityHistory.push(q), then shift() when longer than nFramesForAveraging
PushQuality(hist, q) ==
  LET pushed == Append(hist, q)
  IN  IF Len(pushed) > nFramesForAveraging THEN Tail(pushed) ELSE pushed

\* the score shift() removes when q is pushed onto hist, None if it removes none
Evicted(hist) == IF Len(hist) + 1 > nFramesForAveraging THEN Head(hist) ELSE None

\* mutant: the sum is divided by the capacity of the history
AverageQualityOverCapacity(hist) == RDiv(RSum(hist), RInt(nFramesForAveraging))

\* sumQuality / qualityHistory.length
AverageQuality(hist) == RDiv(RSum(hist), RInt(Len(hist)))

\* mutant: the fade runs upwards from the threshold
calculateErrorMessageOpacityRising(avg) ==
  IF RLe(avg, displayingThresholdQuality) THEN RInt(1)
  ELSE IF RLe(qualityIndicatorMax, avg) THEN RInt(0)
  ELSE RMin(RMax(RDiv(RSub(avg, displayingThresholdQuality), qualityIndicatorFadeRange),
                 RInt(0)), RInt(1))

\* ARFeatureMatcher.calculateErrorMessageOpacity
calculateErrorMessageOpacity(avg) ==
  IF RLe(avg, displayingThresholdQuality) THEN RInt(1)
  ELSE IF RLe(qualityIndicatorMax, avg) THEN RInt(0)
  ELSE RMin(RMax(RDiv(RSub(qualityIndicatorMax, avg), qualityIndicatorFadeRange),
                 RInt(0)), RInt(1))

(***************************************************************************)
(* Adaptive resolution: the frame-rate test of captureAndProcessFrame.     *)
(* currentFrameRate = 1000 / elapsedTime, Infinity when elapsedTime is 0.  *)
(***************************************************************************)
RateBelowTarget(elapsed) ==
  \/ elapsed < 0
  \/ elapsed > 0 /\ 1000 < targetFrameRate * elapsed

RateAboveTarget(elapsed) ==
  \/ elapsed = 0
  \/ elapsed > 0 /\ 1000 > targetFrameRate * elapsed

\* mutant: the decrease is not floored at minProcessingCanvasWidth
NewWidthNoFloor(width, elapsed) ==
  IF RateBelowTarget(elapsed) THEN width - processingCanvasWidthStep
  ELSE IF RateAboveTarget(elapsed) THEN width + processingCanvasWidthStep
  ELSE width

\* mutant: the increase is two steps, the decrease one
NewWidthUnevenSteps(width, elapsed) ==
  IF RateBelowTarget(elapsed)
  THEN Max(width - processingCanvasWidthStep, minProcessingCanvasWidth)
  ELSE IF RateAboveTarget(elapsed)
  THEN width + 2 * processingCanvasWidthStep
  ELSE width

NewWidth(width, elapsed) ==
  IF RateBelowTarget(elapsed)
  THEN Max(width - processingCanvasWidthStep, minProcessingCanvasWidth)
  ELSE IF RateAboveTarget(elapsed)
  THEN width + processingCanvasWidthStep
  ELSE width

(***************************************************************************)
(* Transform smoother: src/transformationSmoothening.js                    *)
(* A smoother is [buffer, previous, ema]: the sliding window's             *)
(* homographyBuffer, OutlierDetection.previousHomography and               *)
(* ExponentialMovingAverageFilter.emaHomography.                           *)
(***************************************************************************)
windowSize == 5
alpha == R(1, 10)
outlierThreshold == R(5, 10)

MatScale(c, h) == [i \in 1..Len(h) |-> RMul(c, h[i])]

\* cv.absdiff followed by the summing loop of isOutlier
TotalDiff(a, b) == RSum([i \in 1..Len(a) |-> RAbs(RSub(a[i], b[i]))])

\* mutant: the reference follows every input, rejected or not
isOutlierTracking(previous, h) ==
  IF previous = None THEN <<FALSE, h>>
  ELSE <<RLt(outlierThreshold, TotalDiff(previous, h)), h>>

\* mutant: a difference equal to the threshold is rejected too
isOutlierAtThreshold(previous, h) ==
  IF previous = None THEN <<FALSE, h>>
  ELSE IF RLe(outlierThreshold, TotalDiff(previous, h)) THEN <<TRUE, previous>>
  ELSE <<FALSE, h>>

\* OutlierDetection.isOutlier: <<verdict, previousHomography afterwards>>
isOutlier(previous, h) ==
  IF previous = None THEN <<FALSE, h>>
  ELSE IF RLt(outlierThreshold, TotalDiff(previous, h)) THEN <<TRUE, previous>>
  ELSE <<FALSE, h>>

\* mutant: a full window keeps its entries and drops the new transform
WindowAddKeepOldest(buffer, h) ==
  IF Len(buffer) >= windowSize THEN buffer ELSE Append(buffer, h)

\* SlidingWindowAveragingFilter.addHomography
WindowAdd(buffer, h) ==
  IF Len(buffer) >= windowSize THEN Append(Tail(buffer), h) ELSE Append(buffer, h)

\* ComprehensiveSmoothnessFilter.addHomography
addHomography(sm, h) ==
  LET verdict == isOutlier(sm.previous, h)
  IN  [sm EXCEPT !.previous = verdict[2],
                 !.buffer = IF verdict[1] THEN @ ELSE WindowAdd(@, h)]

\* mutant: no average until the window is full
getAverageHomographyWhenFull(buffer) ==
  IF Len(buffer) < windowSize THEN None
  ELSE [i \in 1..Len(buffer[1]) |->
          RDiv(RSum([k \in 1..Len(buffer) |-> buffer[k][i]]), RInt(Len(buffer)))]

\* SlidingWindowAveragingFilter.getAverageHomography
getAverageHomography(buffer) ==
  IF Len(buffer) = 0 THEN None
  ELSE [i \in 1..Len(buffer[1]) |->
          RDiv(RSum([k \in 1..Len(buffer) |-> buffer[k][i]]), RInt(Len(buffer)))]

\* mutant: the weights of the input and of the previous result are swapped
emaFilterSwapped(ema, h) ==
  IF ema = None THEN <<h, h>>
  ELSE LET smoothedH == [i \in 1..Len(h) |->
                           RAdd(RMul(RSub(RInt(1), alpha), h[i]), RMul(alpha, ema[i]))]
       IN  <<smoothedH, smoothedH>>

\* mutant: the average starts from the zero matrix
emaFilterFromZero(ema, h) ==
  LET from == IF ema = None THEN [i \in 1..Len(h) |-> RInt(0)] ELSE ema
      smoothedH == [i \in 1..Len(h) |->
                      RAdd(RMul(alpha, h[i]), RMul(RSub(RInt(1), alpha), from[i]))]
  IN  <<smoothedH, smoothedH>>

\* ExponentialMovingAverageFilter.filter: <<returned matrix, emaHomography afterwards>>
emaFilter(ema, h) ==
  IF ema = None THEN <<h, h>>
  ELSE LET smoothedH == [i \in 1..Len(h) |->
                           RAdd(RMul(alpha, h[i]), RMul(RSub(RInt(1), alpha), ema[i]))]
       IN  <<smoothedH, smoothedH>>

\* ComprehensiveSmoothnessFilter.getFilteredHomography: <<returned, smoother afterwards>>
getFilteredHomography(sm) ==
  LET avgH == getAverageHomography(sm.buffer)
  IN  IF avgH # None
      THEN LET out == emaFilter(sm.ema, avgH)
           IN  <<out[1], [sm EXCEPT !.ema = out[2]]>>
      ELSE <<None, sm>>

NewSmoother == [buffer |-> << >>, previous |-> None, ema |-> None]

\* the record of the calls made on a smoother: the latest call, its input,
\* verdict and output, the first input and whether every input equalled it,
\* the inputs accepted so far in order (the latest windowSize + 1 of them),
\* and the window average the latest getFilteredHomography computed
NoCalls ==
  [op |-> "none", input |-> None, rejected |-> FALSE, output |-> None,
   first |-> None, constant |-> TRUE, accepted |-> << >>, average |-> None]

(***************************************************************************)
(* Inputs: what the external collaborators hand to the pipeline            *)
(***************************************************************************)
\* homographies cv.findHomography may return (row-major), besides the empty Mat
Homography(tx) ==
  <<RInt(1), RInt(0), tx, RInt(0), RInt(1), RInt(0), RInt(0), RInt(0), RInt(1)>>
H1 == Homography(RInt(0))
H2 == Homography(R(2, 5))
H3 == Homography(RInt(1))
RawTransforms == {H1, H2, H3}
\* transforms whose differences are exactly the outlier threshold (H1 to H5)
\* or just above it (H5 to H6)
H5 == Homography(R(1, 2))
H6 == Homography(R(11, 10))
ThresholdTransforms == {H1, H5, H6}
SolverOutputs == {None, H1, H2}

\* Matcher output for a frame of nq keypoints against nq reference keypoints:
\* keypoints 0..n-1 pass the ratio test and are mutual nearest neighbours,
\* keypoints n..n+m-1 pass the ratio test only, the others fail it.
SceneFwd(nq, n, m) ==
  [k \in 1..nq |->
     <<DMatch(k - 1, k - 1, IF k <= n + m THEN 3 ELSE 4),
       DMatch(k - 1, k % nq, 4)>>]
SceneRev(nq, n, m) ==
  [j \in 1..nq |->
     <<DMatch(j - 1, IF j <= n THEN j - 1 ELSE j % nq, 3),
       DMatch(j - 1, (j + 1) % nq, 4)>>]
Scene(nq, n, m) == [fwd |-> SceneFwd(nq, n, m), rev |-> SceneRev(nq, n, m)]
\* detectAndCompute found no descriptors in the frame
NoDescriptors == [fwd |-> << >>, rev |-> << >>]

\* the frames the camera may deliver, by name
SceneNames == {"blank", "poor", "four", "five"}
SceneOf(name) ==
  CASE name = "blank" -> NoDescriptors
    [] name = "poor" -> Scene(MaxKeypoints, 0, 0)
    [] name = "four" -> Scene(MaxKeypoints, minMatchesForHomography - 1, 1)
    [] name = "five" -> Scene(MaxKeypoints, minMatchesForHomography, 0)
    [] name = "faint" -> Scene(25, 6, 0)

\* frames whose scores average to exactly displayingThresholdQuality: three
\* of score 0 and one of score 6/25 give 0.06
FaintScenes == {"poor", "faint"}

Scenes == [name \in SceneNames \cup FaintScenes |-> SceneOf(name)]

\* what filterMatchesWithCrossCheck returns on each of these frames
FilterResult ==
  [name \in SceneNames \cup FaintScenes |->
     filterMatchesWithCrossCheck(Scenes[name].fwd, Scenes[name].rev,
                                 matchDistanceThreshold)]

\* milliseconds between two ticks, as Date.now() measures them
ElapsedTimes == {0, 50, 100, 200}

\* the stage of a tick that throws, if any
Faults == {"none", "alloc", "capture", "update", "detect", "filter", "display",
           "estimate", "blend"}
\* the step of initialize() that fails, if any
SetupFaults == {"none", "opencv", "camera", "reference", "play"}
\* how the environment produces the time between two ticks: as measured
\* (any), by a generator repeating one frame time, or by a generator
\* alternating between a rate above and a rate below the target
FrameTimeGenerators == {"measured", "constant", "alternating"}

(***************************************************************************)
(* State                                                                   *)
(***************************************************************************)
VARIABLES
  setup,                        \* "constructed", "running" or "failed": how far initialize() got
  started,                      \* calls of startProcessing() so far
  pending,                      \* processFrame callbacks requestAnimationFrame holds
  processing,                   \* this.processing
  errorLogPresent,              \* the page has an element with id ErrorLog
  overlayCount,                 \* this.overlayPNGs.length
  currentFrameIndex,            \* this.currentFrameIndex
  currentProcessingCanvasWidth, \* this.currentProcessingCanvasWidth
  frameData,                    \* this.frameData; live = FALSE stands for null
  qualityHistory,               \* this.qualityHistory
  averageQualityIndicator,      \* this.averageQualityIndicator
  everProduced,                 \* history: the solver has returned a transform on some tick
  frame,                        \* what the latest tick (or initialize) did
  frameTimes,                   \* the generator of frame times in use
  smoother,                     \* a ComprehensiveSmoothnessFilter
  twin,                         \* a second one, fed the same inputs times scale
  scale,                        \* the constant the twin's inputs are multiplied by
  ops,                          \* smoother operations so far
  smoothed,                     \* <<latest input, verdict, latest filtered output>> of smoother
  twinSmoothed,                 \* the same of twin
  matcherOut,                   \* [fwd, rev]: knnMatch results handed to the filter
  filtered,                     \* <<value returned by filterMatchesWithCrossCheck>> or << >>
  variant,                      \* queue-based page in use: "interval" or "animation"
  frameQueue,                   \* its this.frameQueue
  pc,                           \* where its captureAndProcessFrame call stands
  call                          \* what its latest tick did

pipelineVars ==
  <<setup, started, pending, processing, errorLogPresent, overlayCount,
    currentFrameIndex, currentProcessingCanvasWidth, frameData, qualityHistory,
    averageQualityIndicator, everProduced, frame, frameTimes>>
smootherVars == <<smoother, twin, scale, ops, smoothed, twinSmoothed>>
filterVars == <<matcherOut, filtered>>
queueVars == <<variant, frameQueue, pc, call>>
vars == <<pipelineVars, smootherVars, filterVars, queueVars>>

\* the video's width / height, stored by adjustCanvasSizes
aspectRatio == R(4, 3)

\* adjustProcessingCanvas: canvas.height = canvas.width / aspectRatio, which
\* the canvas truncates to an integer
HeightFor(width) == (width * aspectRatio[2]) \div aspectRatio[1]

\* new FrameData(width, height): image names the camera frame grayMat holds
\* and keypoints the frame the KeyPointVector was detected in ("none" while
\* the vector is empty); allocated is false when a new cv.Mat threw in the
\* constructor or the Mats have been deleted
NewFrameData(width) ==
  [live |-> TRUE, allocated |-> TRUE, width |-> width, height |-> HeightFor(width),
   image |-> "blank", keypoints |-> "none", goodMatches |-> << >>]

\* seq counts the ticks that got past the entry guard, up to MaxTicksCounted;
\* score is the quality score the tick appended, evicted the one it shifted out;
\* created and deleted count the native objects (cv.Mat and cv vectors) the
\* tick constructed and the ones it called delete() on; updated tells that
\* FrameData.update put the captured frame into the buffers
NoFrame ==
  [outcome |-> "none", seq |-> 0, elapsed |-> -1, thrown |-> "none", widthBefore |-> 0,
   allocFailed |-> FALSE, captured |-> FALSE, updated |-> FALSE,
   score |-> None, evicted |-> None,
   indicator |-> None, gateMatches |-> -1, gateQuality |-> None,
   solver |-> FALSE, raw |-> None, composited |-> None, overlayOpacity |-> None,
   created |-> 0, deleted |-> 0]

\* native objects one FrameData owns: srcMat, grayMat, keypoints, descriptors,
\* goodMatches (constructor lines 17-21, delete() lines 58-62)
frameDataObjects == 5

\* the call constructed c native objects and deleted d
Native(s, c, d) ==
  [s EXCEPT !.frame.created = @ + c, !.frame.deleted = @ + d]

(***************************************************************************)
(* One tick: ARFeatureMatcher.captureAndProcessFrame, stage by stage.      *)
(* s carries the object's fields through the call; in = [elapsed, scene,   *)
(* h, fault] is what the clock, the matcher and the solver deliver and     *)
(* the stage that throws.                                                  *)
(***************************************************************************)
\* logError dereferences document.getElementById('ErrorLog') without creating it
LogErrorThrows == ~errorLogPresent

\* line 661: the normal end of the call
Finish(s) == [s EXCEPT !.processing = FALSE]

\* lines 662-665: catch of captureAndProcessFrame; logError runs before the reset
OuterCatch(s, stage) ==
  IF LogErrorThrows
  THEN [s EXCEPT !.escaped = TRUE, !.frame.outcome = "escaped", !.frame.thrown = stage]
  ELSE [s EXCEPT !.processing = FALSE, !.frame.outcome = "abandoned",
                 !.frame.thrown = stage]

\* a stage with its own try/catch around logError: the error is contained
\* unless logError throws from that catch into the enclosing one
InnerCatch(s, stage) ==
  IF LogErrorThrows THEN OuterCatch(s, stage)
  ELSE Finish([s EXCEPT !.frame.thrown = stage])

\* mutant: the compositor gets the EMA of the previous tick's transform and h
applyOverlaySmoothed(s, h, in) ==
  IF in.fault = "blend" \/ overlayCount = 0
  THEN InnerCatch(Native(s, 1, 0), "blend")
  ELSE Finish(Native([s EXCEPT
         !.frame.composited = emaFilter(frame.raw, h)[1],
         !.frame.overlayOpacity = RSub(RInt(1), calculateErrorMessageOpacity(s.avg)),
         !.idx = (@ + 1) % overlayCount], 1, 1))

\* mutant: the overlay is always drawn fully opaque
applyOverlayOpaque(s, h, in) ==
  IF in.fault = "blend" \/ overlayCount = 0
  THEN InnerCatch(Native(s, 1, 0), "blend")
  ELSE Finish(Native([s EXCEPT
         !.frame.composited = h,
         !.frame.overlayOpacity = RInt(1),
         !.idx = (@ + 1) % overlayCount], 1, 1))

\* mutant: the index is advanced without the modulo
applyOverlayNoWrap(s, h, in) ==
  IF in.fault = "blend" \/ overlayCount = 0
  THEN InnerCatch(Native(s, 1, 0), "blend")
  ELSE Finish(Native([s EXCEPT
         !.frame.composited = h,
         !.frame.overlayOpacity = RSub(RInt(1), calculateErrorMessageOpacity(s.avg)),
         !.idx = @ + 1], 1, 1))

\* ARFeatureMatcher.applyOverlay: transformedOverlay is constructed at line
\* 862 and deleted at line 886, which a throw in between skips
applyOverlay(s, h, in) ==
  IF in.fault = "blend" \/ overlayCount = 0
  THEN InnerCatch(Native(s, 1, 0), "blend")
  ELSE Finish(Native([s EXCEPT
         !.frame.composited = h,
         !.frame.overlayOpacity = RSub(RInt(1), calculateErrorMessageOpacity(s.avg)),
         !.idx = (@ + 1) % overlayCount], 1, 1))

\* lines 809-815: frameData.keypoints.get(match.queryIdx).pt is defined for
\* every match, so the point arrays can be built
HasKeypoints(fd) ==
  \A k \in 1..Len(fd.goodMatches) :
     fd.goodMatches[k].queryIdx < Len(Scenes[IF fd.keypoints = "none" THEN "blank"
                                             ELSE fd.keypoints].fwd)

\* mutant: the gate counts matches only
GateIgnoresQuality(matches, avg) == ~(matches < minMatchesForHomography)

\* the test of lines 797-800, negated: the solver may run
GatePasses(matches, avg) ==
  ~(matches < minMatchesForHomography \/ RLt(avg, displayingThresholdQuality))

\* lines 825-827: mat1, mat2 and h are deleted, unless applyOverlay's catch
\* threw and the call left through the catch of line 828
Released(r) == IF r.escaped THEN r ELSE Native(r, 0, 3)

\* mutant: when the gate fails, the previous tick's transform is drawn again
calculateReusingPrevious(s, in) ==
  LET matches == Len(s.frameData.goodMatches)
      shown == [s EXCEPT !.frame.indicator = calculateErrorMessageOpacity(s.avg),
                         !.frame.gateMatches = matches,
                         !.frame.gateQuality = s.avg]
  IN  IF ~GatePasses(matches, s.avg)
      THEN IF frame.raw # None THEN applyOverlay(shown, frame.raw, in) ELSE Finish(shown)
      ELSE IF ~HasKeypoints(s.frameData) THEN InnerCatch(shown, "estimate")
      ELSE IF in.fault = "estimate" THEN InnerCatch(Native(shown, 2, 0), "estimate")
      ELSE LET solved == Native([shown EXCEPT !.frame.solver = TRUE, !.frame.raw = in.h],
                                3, 0)
           IN  IF in.h = None THEN Released(Finish(solved))
               ELSE Released(applyOverlay(solved, in.h, in))

\* mutant: the indicator is drawn only on ticks whose gate lets the solver run
calculateIndicatorWhenGated(s, in) ==
  LET matches == Len(s.frameData.goodMatches)
      tested == [s EXCEPT !.frame.gateMatches = matches,
                          !.frame.gateQuality = s.avg]
      shown == [tested EXCEPT !.frame.indicator = calculateErrorMessageOpacity(s.avg)]
  IN  IF ~s.frameData.allocated THEN InnerCatch(s, "estimate")
      ELSE IF ~GatePasses(matches, s.avg) THEN Finish(tested)
      ELSE IF ~HasKeypoints(s.frameData) THEN InnerCatch(shown, "estimate")
      ELSE IF in.fault = "estimate" THEN InnerCatch(Native(shown, 2, 0), "estimate")
      ELSE LET solved == Native([shown EXCEPT !.frame.solver = TRUE, !.frame.raw = in.h],
                                3, 0)
           IN  IF in.h = None THEN Released(Finish(solved))
               ELSE Released(applyOverlay(solved, in.h, in))

\* ARFeatureMatcher.calculateTransformationAndOverlay: mat1 and mat2 are
\* constructed at lines 817-818 and h by cv.findHomography at line 820
calculateTransformationAndOverlay(s, in) ==
  LET matches == Len(s.frameData.goodMatches)
      shown == [s EXCEPT !.frame.indicator = calculateErrorMessageOpacity(s.avg),
                         !.frame.gateMatches = matches,
                         !.frame.gateQuality = s.avg]
  IN  IF ~s.frameData.allocated
      THEN InnerCatch([s EXCEPT !.frame.indicator = calculateErrorMessageOpacity(s.avg)],
                      "estimate")
      ELSE IF ~GatePasses(matches, s.avg) THEN Finish(shown)
      ELSE IF ~HasKeypoints(s.frameData) THEN InnerCatch(shown, "estimate")
      ELSE IF in.fault = "estimate" THEN InnerCatch(Native(shown, 2, 0), "estimate")
      ELSE LET solved == Native([shown EXCEPT !.frame.solver = TRUE, !.frame.raw = in.h],
                                3, 0)
           IN  IF in.h = None THEN Released(Finish(solved))
               ELSE Released(applyOverlay(solved, in.h, in))

\* lines 649-659: draw the video frame on the displaying canvas, then overlay
Display(s, in) ==
  IF in.fault = "display" THEN OuterCatch(s, "display")
  ELSE calculateTransformationAndOverlay(s, in)

\* mutant: the async body is suspended before its first statement and runs
\* after the caller has returned
detectFeaturesAndMatchSuspended(s, in) == s

\* ARFeatureMatcher.detectFeaturesAndMatch: async and not awaited, so whatever
\* it throws ends in its rejected promise and the caller goes on.  It
\* constructs the detector mask (line 677) and, when the filter runs, the
\* filter constructs goodMatches and the two DMatchVectorVectors (lines 729,
\* 733, 742); none of them is deleted, nor is the goodMatches vector the
\* assignment of line 694 replaces.
detectFeaturesAndMatch(s, in) ==
  LET image == s.frameData.image
      masked == Native(s, 1, 0)
      detected == [masked EXCEPT !.frameData.keypoints = image]
      matched == Native(detected, IF Scenes[image].fwd = << >> THEN 0 ELSE 3, 0)
  IN  IF in.fault = "detect" \/ ~s.frameData.allocated
      THEN [masked EXCEPT !.frame.thrown = "detect"]
      ELSE IF in.fault = "filter" THEN [matched EXCEPT !.frame.thrown = "filter"]
      ELSE IF Scenes[image].fwd = << >> THEN detected
      ELSE LET res == FilterResult[image]
           IN  IF res = None THEN [matched EXCEPT !.frame.thrown = "filter"]
               ELSE LET hist == PushQuality(s.hist, res[2])
                    IN  [matched EXCEPT !.frameData.goodMatches = res[1],
                                         !.hist = hist,
                                         !.avg = AverageQuality(hist),
                                         !.frame.score = res[2],
                                         !.frame.evicted = Evicted(s.hist)]

\* FrameData.update, then the rest of the tick.  update throws, if it does,
\* while filling srcMat / grayMat (always when the Mats are missing), before
\* it replaces the vectors: it constructs keypoints, descriptors and
\* goodMatches anew (lines 38-41) and deletes the old descriptors only.
Update(s, in) ==
  IF ~s.frameData.live THEN OuterCatch(s, "update")
  ELSE IF in.fault = "update" \/ ~s.frameData.allocated
  THEN IF LogErrorThrows THEN OuterCatch(s, "update")
       ELSE Display(detectFeaturesAndMatch([s EXCEPT !.frame.thrown = "update"], in), in)
  ELSE Display(detectFeaturesAndMatch(
                 Native([s EXCEPT !.frameData.image = in.scene,
                                  !.frameData.keypoints = "none",
                                  !.frameData.goodMatches = << >>,
                                  !.frame.updated = TRUE], 3, 1), in), in)

\* lines 626-641: drawImage / getImageData on the processing canvas
Capture(s, in) ==
  IF in.fault = "capture" THEN OuterCatch(s, "capture")
  ELSE Update([s EXCEPT !.frame.captured = TRUE], in)

\* mutant: the buffers are kept when the width changes
ReprovisionNever(fd, width, newWidth) == fd

\* lines 610-624: adjustProcessingCanvas, frameData.delete(), new FrameData
Reprovision(fd, width, newWidth) ==
  IF newWidth # width THEN NewFrameData(newWidth) ELSE fd

\* lines 597-624: the width adjustment and, when the width changed, the
\* buffers for it.  A cv.Mat constructor that throws is caught inside
\* FrameData's constructor, which leaves an object without Mats; if logError
\* throws there, this.frameData still refers to the deleted old object.
Resize(s, in) ==
  LET newWidth == NewWidth(s.width, in.elapsed)
      freed == IF newWidth # s.width /\ s.frameData.live /\ s.frameData.allocated
               THEN frameDataObjects ELSE 0
      resized == [s EXCEPT !.width = newWidth,
                           !.frameData = Reprovision(@, s.width, newWidth)]
  IN  IF newWidth # s.width /\ in.fault = "alloc"
      THEN IF LogErrorThrows
           THEN OuterCatch(Native([s EXCEPT !.width = newWidth,
                                            !.frameData.allocated = FALSE,
                                            !.frame.allocFailed = TRUE], 0, freed),
                           "alloc")
           ELSE Capture(Native([resized EXCEPT !.frameData.allocated = FALSE,
                                               !.frame.allocFailed = TRUE,
                                               !.frame.thrown = "alloc"], 0, freed), in)
      ELSE Capture(Native(resized, IF newWidth # s.width THEN frameDataObjects ELSE 0,
                          freed), in)

\* mutant: the guard never holds a tick back
BusyNever(p) == FALSE

\* line 588: if (this.processing) return;
Busy(p) == p

\* ARFeatureMatcher.captureAndProcessFrame
captureAndProcessFrame(in) ==
  LET entry == [processing |-> processing,
                width |-> currentProcessingCanvasWidth,
                frameData |-> frameData,
                hist |-> qualityHistory,
                avg |-> averageQualityIndicator,
                idx |-> currentFrameIndex,
                escaped |-> FALSE,
                frame |-> [NoFrame EXCEPT !.outcome = "done",
                                          !.seq = Min(frame.seq + 1, MaxTicksCounted),
                                          !.elapsed = in.elapsed,
                                          !.widthBefore = currentProcessingCanvasWidth]]
  IN  IF Busy(processing)
      THEN [entry EXCEPT !.frame.outcome = "dropped", !.frame.seq = frame.seq]
      ELSE Resize([entry EXCEPT !.processing = TRUE], in)

(***************************************************************************)
(* Actions of the pipeline                                                 *)
(***************************************************************************)
InitPipelineUnder(logs, generators) ==
  /\ frameTimes \in generators
  /\ setup = "constructed"
  /\ started = 0
  /\ pending = 0
  /\ processing = FALSE
  /\ errorLogPresent \in logs
  /\ overlayCount = 0
  /\ currentFrameIndex = 0
  /\ currentProcessingCanvasWidth = initialProcessingCanvasWidth
  /\ frameData = [NewFrameData(0) EXCEPT !.live = FALSE]
  /\ qualityHistory = << >>
  /\ averageQualityIndicator = RInt(0)
  /\ everProduced = FALSE
  /\ frame = NoFrame

InitPipeline(logs) == InitPipelineUnder(logs, {"measured"})

IdleSmoother ==
  /\ smoother = NewSmoother
  /\ twin = NewSmoother
  /\ scale = RInt(1)
  /\ ops = 0
  /\ smoothed = NoCalls
  /\ twinSmoothed = NoCalls

IdleFilter ==
  /\ matcherOut = NoDescriptors
  /\ filtered = << >>

\* no tick of a queue-based page yet
NoCall ==
  [seq |-> 0, outcome |-> "none", fault |-> "none", matches |-> 0, thrown |-> "none",
   pushed |-> 0, shifted |-> 0, goodMatches |-> <<0>>, overlay |-> FALSE]

IdleQueue ==
  /\ variant = "animation"
  /\ frameQueue = << >>
  /\ pc = "idle"
  /\ call = NoCall

\* ARFeatureMatcher.initialize, called once by window.onload.  The camera
\* steps run adjustCanvasSizes, which allocates the first FrameData (a
\* failed getUserMedia leaves this.video undefined, so waitForVideoReady
\* throws); every failure ends in initialize's catch, whose logError either
\* returns, and the promise resolves, or throws, and it rejects; a
\* failed video.play() is swallowed by startVideoPlayback's catch unless
\* logError throws there, and then from every catch up to initialize's.
initialize(fault, n) ==
  /\ setup = "constructed"
  /\ frame' = [NoFrame EXCEPT !.outcome = "setup", !.thrown = fault]
  /\ IF fault \in {"opencv", "camera"}
     THEN /\ setup' = IF LogErrorThrows THEN "rejected" ELSE "failed"
          /\ UNCHANGED <<started, pending, overlayCount, frameData>>
     ELSE /\ frameData' = NewFrameData(currentProcessingCanvasWidth)
          /\ IF fault = "reference" \/ (fault = "play" /\ LogErrorThrows)
             THEN /\ setup' = IF LogErrorThrows THEN "rejected" ELSE "failed"
                  /\ UNCHANGED <<started, pending, overlayCount>>
             ELSE /\ overlayCount' = n
                  /\ setup' = "running"
                  /\ started' = started + 1
                  /\ pending' = pending + 1
  /\ UNCHANGED <<processing, errorLogPresent, currentFrameIndex,
                 currentProcessingCanvasWidth, qualityHistory,
                 averageQualityIndicator, everProduced, frameTimes>>
  /\ UNCHANGED <<smootherVars, filterVars, queueVars>>

Initialize == \E fault \in SetupFaults, n \in 0..MaxOverlayFrames : initialize(fault, n)

\* the frame times the generator in use may deliver after the latest tick
Generated(elapsed) ==
  CASE frameTimes = "measured" -> TRUE
    [] frameTimes = "constant" -> frame.elapsed < 0 \/ elapsed = frame.elapsed
    [] frameTimes = "alternating" ->
         /\ RateBelowTarget(elapsed) \/ RateAboveTarget(elapsed)
         /\ frame.elapsed < 0 \/ (RateBelowTarget(elapsed) <=> RateAboveTarget(frame.elapsed))

\* the processFrame callback of startProcessing: one call of
\* captureAndProcessFrame, then requestAnimationFrame(processFrame) unless
\* the call threw
processFrame(in) ==
  /\ pending > 0
  /\ processing \/ NewWidth(currentProcessingCanvasWidth, in.elapsed) <= MaxWidth
  /\ Generated(in.elapsed)
  /\ \E r \in {captureAndProcessFrame(in)} :
         /\ processing' = r.processing
         /\ currentProcessingCanvasWidth' = r.width
         /\ frameData' = r.frameData
         /\ qualityHistory' = r.hist
         /\ averageQualityIndicator' = r.avg
         /\ currentFrameIndex' = r.idx
         /\ frame' = r.frame
         /\ everProduced' = (everProduced \/ r.frame.raw # None)
         /\ pending' = IF r.escaped THEN pending - 1 ELSE pending
  /\ UNCHANGED <<setup, started, errorLogPresent, overlayCount, frameTimes>>
  /\ UNCHANGED <<smootherVars, filterVars, queueVars>>

\* a tick whose clock, camera frame, solver result and failing stage are
\* drawn from the given sets
TickOver(elapsedTimes, scenes, solverOutputs, faults) ==
  \E elapsed \in elapsedTimes, scene \in scenes, h \in solverOutputs, fault \in faults :
     processFrame([elapsed |-> elapsed, scene |-> scene, h |-> h, fault |-> fault])

\* ARFeatureMatcher.startProcessing invoked again on the running object
RestartLoop ==
  /\ setup = "running"
  /\ started < MaxStarts
  /\ started' = started + 1
  /\ pending' = pending + 1
  /\ UNCHANGED <<setup, processing, errorLogPresent, overlayCount, currentFrameIndex,
                 currentProcessingCanvasWidth, frameData, qualityHistory,
                 averageQualityIndicator, everProduced, frame, frameTimes>>
  /\ UNCHANGED <<smootherVars, filterVars, queueVars>>

(***************************************************************************)
(* Spec: the tracking pipeline on a page that has the ErrorLog element,    *)
(* with frames arriving at the target rate or slower; any stage from the   *)
(* buffer update on may throw.                                             *)
(***************************************************************************)
Init == InitPipeline({TRUE}) /\ IdleSmoother /\ IdleFilter /\ IdleQueue

Tick ==
  TickOver({100, 200}, SceneNames, SolverOutputs,
           {"none", "update", "detect", "estimate", "blend"})

Next == Initialize \/ Tick

Spec == Init /\ [][Next]_vars

(***************************************************************************)
(* SpecLoop: the frame loop with every stage able to throw, on pages with  *)
(* and without the ErrorLog element, and with startProcessing() callable   *)
(* again on the running object.                                            *)
(***************************************************************************)
InitLoop == InitPipeline(BOOLEAN) /\ IdleSmoother /\ IdleFilter /\ IdleQueue

TickLoop == TickOver({100, 200}, {"blank", "five"}, {None, H1}, Faults)

NextLoop == Initialize \/ TickLoop \/ RestartLoop

SpecLoop == InitLoop /\ [][NextLoop]_vars

(***************************************************************************)
(* SpecResolution: the adaptive resolution controller under every frame    *)
(* time, on frames without descriptors.                                    *)
(***************************************************************************)
TickResolution == TickOver(ElapsedTimes, {"blank"}, {None}, {"none", "capture"})

NextResolution == Initialize \/ TickResolution

SpecResolution == Init /\ [][NextResolution]_vars
(***************************************************************************)
(* SpecController: the adaptive resolution controller driven by a          *)
(* synthetic frame-time generator, one that repeats a single frame time or *)
(* one that alternates between a rate above and a rate below the target.   *)
(***************************************************************************)
InitController ==
  InitPipelineUnder({TRUE}, {"constant", "alternating"}) /\ IdleSmoother /\ IdleFilter /\ IdleQueue

TickController == TickOver(ElapsedTimes, {"blank", "poor", "five"}, {None}, {"none"})

NextController == Initialize \/ TickController

SpecController == InitController /\ [][NextController]_vars

(***************************************************************************)
(* SpecBuffers: the frame loop with buffer allocation able to fail when    *)
(* the processing width changes.                                           *)
(***************************************************************************)
TickBuffers == TickOver(ElapsedTimes, {"blank", "five"}, {None}, {"none", "alloc"})

NextBuffers == Initialize \/ TickBuffers

SpecBuffers == Init /\ [][NextBuffers]_vars

(***************************************************************************)
(* SpecThreshold: the frame loop on frames whose quality scores bring the  *)
(* average to the accept threshold and to either side of it.               *)
(***************************************************************************)
TickThreshold == TickOver({100}, FaintScenes, {None, H1}, {"none"})

NextThreshold == Initialize \/ TickThreshold

SpecThreshold == Init /\ [][NextThreshold]_vars

(***************************************************************************)
(* SpecOpacity: calculateErrorMessageOpacity and displayGetCloserMessage   *)
(* applied to an object whose history holds one quality score.             *)
(***************************************************************************)
QualityGrid == {R(k, 10 * QualitySteps) : k \in 0..QualitySteps}

InitOpacity ==
  /\ \E q \in QualityGrid :
        /\ qualityHistory = <<q>>
        /\ averageQualityIndicator = q
  /\ frameTimes = "measured"
  /\ setup = "running"
  /\ started = 1
  /\ pending = 1
  /\ processing = FALSE
  /\ errorLogPresent = TRUE
  /\ overlayCount = 0
  /\ currentFrameIndex = 0
  /\ currentProcessingCanvasWidth = initialProcessingCanvasWidth
  /\ frameData = NewFrameData(initialProcessingCanvasWidth)
  /\ everProduced = FALSE
  /\ frame = NoFrame
  /\ IdleSmoother
  /\ IdleFilter
  /\ IdleQueue

\* lines 790-794: the opacity is computed and the indicator drawn with it
ShowIndicator ==
  /\ frame.outcome = "none"
  /\ frame' = [NoFrame EXCEPT !.outcome = "indicator",
                              !.gateQuality = averageQualityIndicator,
                              !.indicator =
                                 calculateErrorMessageOpacity(averageQualityIndicator)]
  /\ UNCHANGED <<setup, started, pending, processing, errorLogPresent, overlayCount,
                 currentFrameIndex, currentProcessingCanvasWidth, frameData,
                 qualityHistory, averageQualityIndicator, everProduced, frameTimes>>
  /\ UNCHANGED <<smootherVars, filterVars, queueVars>>

NextOpacity == ShowIndicator

SpecOpacity == InitOpacity /\ [][NextOpacity]_vars

(***************************************************************************)
(* SpecSmoother: a ComprehensiveSmoothnessFilter(5, 0.1, 0.5) driven by    *)
(* addHomography / getFilteredHomography calls in any order, next to a     *)
(* twin that receives every input multiplied by a constant.                *)
(***************************************************************************)
Scales == {RInt(2), R(1, 2)}

InitSmoother ==
  /\ InitPipeline({TRUE})
  /\ IdleFilter
  /\ IdleQueue
  /\ smoother = NewSmoother
  /\ twin = NewSmoother
  /\ scale \in Scales
  /\ ops = 0
  /\ smoothed = NoCalls
  /\ twinSmoothed = NoCalls

\* the accepted inputs remembered once h has been accepted after them
Remember(accepted, h) ==
  IF Len(accepted) > windowSize THEN Append(Tail(accepted), h) ELSE Append(accepted, h)

AddTo(sm, log, h) ==
  <<addHomography(sm, h),
    [log EXCEPT !.op = "add", !.input = h, !.rejected = isOutlier(sm.previous, h)[1],
                !.accepted = IF isOutlier(sm.previous, h)[1] THEN @ ELSE Remember(@, h),
                !.first = IF @ = None THEN h ELSE @,
                !.constant = @ /\ (log.first = None \/ h = log.first)]>>

AddOver(inputs) ==
  \E h \in inputs :
     /\ ops < MaxSmootherOps
     /\ ops' = ops + 1
     /\ \E a \in {AddTo(smoother, smoothed, h)} :
           smoother' = a[1] /\ smoothed' = a[2]
     /\ \E b \in {AddTo(twin, twinSmoothed, MatScale(scale, h))} :
           twin' = b[1] /\ twinSmoothed' = b[2]
     /\ UNCHANGED <<scale, pipelineVars, filterVars, queueVars>>

AddHomography == AddOver(RawTransforms)

GetFrom(sm, log) ==
  LET got == getFilteredHomography(sm)
  IN  <<got[2], [log EXCEPT !.op = "get", !.output = got[1],
                            !.average = getAverageHomography(sm.buffer)]>>

GetFilteredHomography ==
  /\ ops < MaxSmootherOps
  /\ ops' = ops + 1
  /\ \E a \in {GetFrom(smoother, smoothed)} :
        smoother' = a[1] /\ smoothed' = a[2]
  /\ \E b \in {GetFrom(twin, twinSmoothed)} :
        twin' = b[1] /\ twinSmoothed' = b[2]
  /\ UNCHANGED <<scale, pipelineVars, filterVars, queueVars>>

NextSmoother == AddHomography \/ GetFilteredHomography

SpecSmoother == InitSmoother /\ [][NextSmoother]_vars

(***************************************************************************)
(* SpecOutlier: the same smoother fed transforms that differ from one      *)
(* another by exactly the outlier threshold or by a little more.           *)
(***************************************************************************)
InitOutlier == InitPipeline({TRUE}) /\ IdleFilter /\ IdleSmoother /\ IdleQueue

AddNearThreshold == AddOver(ThresholdTransforms)

NextOutlier == AddNearThreshold \/ GetFilteredHomography

SpecOutlier == InitOutlier /\ [][NextOutlier]_vars

(***************************************************************************)
(* SpecRecovery: the smoother driven by any calls at first and then, frame *)
(* after frame without end, by addHomography with the transform of the     *)
(* frame before.  Past MaxSmootherOps, ops keeps the parity of the calls.  *)
(* The twin is left alone.                                                 *)
(* The frame loop keeps delivering frames: FeedAgain is weakly fair.       *)
(***************************************************************************)
\* isOutlier on every reference and input of this environment, computed once
Verdicts == [previous \in RawTransforms, h \in RawTransforms |-> isOutlier(previous, h)]

\* addHomography(h) on the smoother alone, with h the transform fed last
FeedAgain ==
  /\ smoothed.input # None
  /\ ops' = IF ops > MaxSmootherOps THEN MaxSmootherOps ELSE ops + 1
  /\ LET h == smoothed.input
         verdict == IF smoother.previous = None THEN isOutlier(None, h)
                    ELSE Verdicts[smoother.previous, h]
     IN  /\ smoother' = [smoother EXCEPT !.previous = verdict[2],
                                         !.buffer = IF verdict[1] THEN @
                                                    ELSE WindowAdd(@, h)]
         /\ smoothed' = [smoothed EXCEPT !.op = "add",
                                         !.rejected = verdict[1],
                                         !.accepted = IF verdict[1] THEN @
                                                      ELSE Remember(@, h)]
  /\ UNCHANGED <<twin, twinSmoothed, scale, pipelineVars, filterVars, queueVars>>

NextRecovery == AddHomography \/ GetFilteredHomography \/ FeedAgain

SpecRecovery == InitOutlier /\ [][NextRecovery]_vars /\ WF_vars(FeedAgain)

(***************************************************************************)
(* SpecFilter: filterMatchesWithCrossCheck applied to the knnMatch results *)
(* of a small frame: every keypoint has its two forward neighbours; a      *)
(* reference keypoint has none, one or two reverse neighbours; or the       *)
(* matcher returns nothing at all.                                         *)
(***************************************************************************)
ForwardLists(q) ==
  { <<DMatch(q, t, d[1]), DMatch(q, (t + 1) % FilterKeypoints, d[2])>> :
      t \in 0..(FilterKeypoints - 1), d \in {<<2, 4>>, <<3, 4>>, <<4, 4>>} }

ReverseLists(j) ==
  {<< >>}
  \cup { <<DMatch(j, q, 3)>> : q \in 0..(FilterKeypoints - 1) }
  \cup { <<DMatch(j, q, 3), DMatch(j, (q + 1) % FilterKeypoints, 4)>> :
           q \in 0..(FilterKeypoints - 1) }

MatcherOutputs ==
  { [fwd |-> f, rev |-> r] :
      f \in { g \in [1..FilterKeypoints -> UNION {ForwardLists(q) : q \in 0..(FilterKeypoints - 1)}] :
                \A k \in 1..FilterKeypoints : g[k][1].queryIdx = k - 1 },
      r \in { g \in [1..FilterKeypoints -> UNION {ReverseLists(j) : j \in 0..(FilterKeypoints - 1)}] :
                \A k \in 1..FilterKeypoints : g[k] = << >> \/ g[k][1].queryIdx = k - 1 } }

InitFilter ==
  /\ InitPipeline({TRUE})
  /\ IdleSmoother
  /\ IdleQueue
  /\ matcherOut \in MatcherOutputs \cup {NoDescriptors}
  /\ filtered = << >>

ApplyFilter ==
  /\ filtered = << >>
  /\ filtered' = <<filterMatchesWithCrossCheck(matcherOut.fwd, matcherOut.rev,
                                               matchDistanceThreshold)>>
  /\ UNCHANGED <<matcherOut, pipelineVars, smootherVars, queueVars>>

NextFilter == ApplyFilter

SpecFilter == InitFilter /\ [][NextFilter]_vars

(***************************************************************************)
(* SpecShortLists: the same filter on knnMatch results in which at least   *)
(* one frame keypoint has fewer than two forward neighbours (knnMatch      *)
(* returns as many as the reference has descriptors to offer).             *)
(***************************************************************************)
ShortForwardLists(q) ==
  {<< >>} \cup { <<DMatch(q, t, 3)>> : t \in 0..(FilterKeypoints - 1) }

ShortMatcherOutputs ==
  { [fwd |-> f, rev |-> r] :
      f \in { g \in [1..FilterKeypoints ->
                      UNION {ForwardLists(q) \cup ShortForwardLists(q) :
                               q \in 0..(FilterKeypoints - 1)}] :
                /\ \A k \in 1..FilterKeypoints : g[k] = << >> \/ g[k][1].queryIdx = k - 1
                /\ \E k \in 1..FilterKeypoints : Len(g[k]) < 2 },
      r \in { g \in [1..FilterKeypoints -> UNION {ReverseLists(j) : j \in 0..(FilterKeypoints - 1)}] :
                \A k \in 1..FilterKeypoints : g[k] = << >> \/ g[k][1].queryIdx = k - 1 } }

InitShortLists ==
  /\ InitPipeline({TRUE})
  /\ IdleSmoother
  /\ IdleQueue
  /\ matcherOut \in ShortMatcherOutputs
  /\ filtered = << >>

NextShortLists == ApplyFilter

SpecShortLists == InitShortLists /\ [][NextShortLists]_vars

(***************************************************************************)
(* SpecAnimation: the frame loop after loadOverlayPNGs has loaded zero to  *)
(* MaxAnimationFrames overlay images, with the estimator and the           *)
(* compositor able to throw.                                               *)
(***************************************************************************)
MaxAnimationFrames == 3

InitializeAnimation == \E n \in 0..MaxAnimationFrames : initialize("none", n)

TickAnimation == TickOver({100}, {"blank", "five"}, {None, H1}, {"none", "estimate", "blend"})

NextAnimation == InitializeAnimation \/ TickAnimation

SpecAnimation == Init /\ [][NextAnimation]_vars

(***************************************************************************)
(* SpecQueue: the two queue-based pages.  "interval" is the page whose     *)
(* startProcessing runs captureAndProcessFrame from setInterval, and       *)
(* "animation" the one that runs it from requestAnimationFrame; both push  *)
(* the captured frame on frameQueue and await processQueue.  The awaited   *)
(* promises are those of async functions that wait for nothing, so every   *)
(* continuation is a microtask and runs before the next timer or animation *)
(* callback: one call goes through queued, matched and drained before the  *)
(* next tick enters.                                                       *)
(***************************************************************************)
MaxQueueTicks == 3

\* the statement that throws on a tick, if any
QueueFaults == {"none", "capture", "construct", "detect", "filter", "estimate"}

\* sizes of the goodMatches vector filterMatches returns
QueueMatches == {0, 5}

InitQueue ==
  /\ InitPipeline({TRUE})
  /\ IdleSmoother
  /\ IdleFilter
  /\ variant \in {"interval", "animation"}
  /\ frameQueue = << >>
  /\ pc = "idle"
  /\ call = NoCall

\* the value of this.processing after the catch of captureAndProcessFrame:
\* the interval page only logs, the animation page also resets the guard
AfterCatch(v) == IF v = "interval" THEN TRUE ELSE FALSE

\* mutant: the frame is read at the head of the queue and left there
ShiftNothing(q) == q

\* this.frameQueue.shift()
Shift(q) == Tail(q)

\* captureAndProcessFrame up to its await: the guard, drawImage and
\* getImageData, new FrameData(imageData), whose constructor runs
\* cv.matFromImageData and cv.cvtColor unprotected, and the push
queueCaptureAndProcessFrame(fault, matches) ==
  /\ pc = "idle"
  /\ call.seq < MaxQueueTicks
  /\ LET c == [NoCall EXCEPT !.seq = call.seq + 1, !.fault = fault, !.matches = matches]
     IN  IF Busy(processing)
         THEN /\ call' = [c EXCEPT !.outcome = "dropped"]
              /\ UNCHANGED <<processing, frameQueue, pc>>
         ELSE IF fault \in {"capture", "construct"}
         THEN /\ call' = [c EXCEPT !.outcome = "abandoned", !.thrown = fault]
              /\ processing' = AfterCatch(variant)
              /\ UNCHANGED <<frameQueue, pc>>
         ELSE /\ call' = [c EXCEPT !.outcome = "running", !.pushed = 1]
              /\ processing' = TRUE
              /\ frameQueue' = Append(frameQueue, c.seq)
              /\ pc' = "queued"
  /\ UNCHANGED <<setup, started, pending, errorLogPresent, overlayCount,
                 currentFrameIndex, currentProcessingCanvasWidth, frameData,
                 qualityHistory, averageQualityIndicator, everProduced, frame,
                 frameTimes, variant>>
  /\ UNCHANGED <<smootherVars, filterVars>>

\* processQueue, from the loop test to its await: the shift and the body of
\* detectFeaturesAndMatch, which catches what detectAndCompute throws and
\* assigns what filterMatches returns, undefined when filterMatches caught
\* an error.  goodMatches is <<size>>, or << >> for undefined.
processQueueShift ==
  /\ pc = "queued"
  /\ frameQueue # << >>
  /\ frameQueue' = Shift(frameQueue)
  /\ call' = [call EXCEPT !.shifted = @ + 1,
                          !.thrown = IF call.fault \in {"detect", "filter"}
                                     THEN call.fault ELSE @,
                          !.goodMatches = CASE call.fault = "detect" -> <<0>>
                                            [] call.fault = "filter" -> << >>
                                            [] OTHER -> <<call.matches>>]
  /\ pc' = "matched"
  /\ UNCHANGED <<pipelineVars, smootherVars, filterVars, variant>>

\* processQueue after its await: goodMatches.size(), which throws into the
\* catch of processQueue when goodMatches is undefined, then
\* calculateTransformationAndOverlay, which catches its own errors, then the
\* loop test again
processQueueOverlay ==
  /\ pc = "matched"
  /\ IF call.goodMatches = << >>
     THEN /\ call' = [call EXCEPT !.thrown = "size"]
          /\ pc' = "drained"
     ELSE /\ call' = [call EXCEPT !.overlay = (call.goodMatches[1] > 0),
                                  !.thrown = IF call.goodMatches[1] > 0 /\ call.fault = "estimate"
                                             THEN "estimate" ELSE @]
          /\ pc' = IF frameQueue = << >> THEN "drained" ELSE "queued"
  /\ UNCHANGED <<pipelineVars, smootherVars, filterVars, variant, frameQueue>>

\* captureAndProcessFrame after its await: this.processing = false
releaseGuard ==
  /\ pc = "drained"
  /\ processing' = FALSE
  /\ pc' = "idle"
  /\ call' = [call EXCEPT !.outcome = "done"]
  /\ UNCHANGED <<setup, started, pending, errorLogPresent, overlayCount,
                 currentFrameIndex, currentProcessingCanvasWidth, frameData,
                 qualityHistory, averageQualityIndicator, everProduced, frame,
                 frameTimes, variant, frameQueue>>
  /\ UNCHANGED <<smootherVars, filterVars>>

TickQueue ==
  \E fault \in QueueFaults, matches \in QueueMatches :
     queueCaptureAndProcessFrame(fault, matches)

NextQueue == TickQueue \/ processQueueShift \/ processQueueOverlay \/ releaseGuard

SpecQueue == InitQueue /\ [][NextQueue]_vars

(***************************************************************************)
(* Properties                                                              *)
(***************************************************************************)
\* a tick that got past the entry guard of captureAndProcessFrame
Processed(f) == f.outcome \in {"done", "abandoned", "escaped"}

\* C1: single flight.  While processing is true no step captures a frame,
\* changes the processing width, the frame buffers, qualityHistory or the
\* average, or draws; a tick arriving then is dropped and leaves no work
\* behind; and a tick is only ever processed when processing was false.
C1_SingleFlight ==
  [][ /\ processing =>
           /\ UNCHANGED <<currentProcessingCanvasWidth, frameData, qualityHistory,
                          averageQualityIndicator, currentFrameIndex, everProduced,
                          processing>>
           /\ frame' # frame =>
                 /\ frame'.outcome = "dropped"
                 /\ ~frame'.captured
                 /\ frame'.indicator = None
                 /\ frame'.composited = None
      /\ (frame' # frame /\ Processed(frame')) => ~processing ]_vars

\* C1 witness: a tick arrived while processing was true and was dropped
C1_Witness == processing /\ frame.outcome = "dropped" /\ pending > 0

\* C2: the frame loop never stalls.  Whichever stage throws, logError
\* included, after every tick processing is false again and every started
\* loop has its next animation tick scheduled.
C2_LoopNeverStalls ==
  setup = "running" =>
     /\ ~processing
     /\ pending = started
     /\ frame.outcome # "escaped"

\* C3: estimator gate.  The solver runs on a tick only if the match set the
\* tick holds has at least 5 correspondences and averageQuality is at least
\* the accept threshold 0.06; with 4 or fewer there is no solver call and
\* no transform.
C3_EstimatorGate ==
  /\ frame.solver =>
        /\ Len(frameData.goodMatches) >= 5
        /\ averageQualityIndicator[1] * 100 >= 6 * averageQualityIndicator[2]
  /\ (Processed(frame) /\ Len(frameData.goodMatches) <= 4) =>
        /\ ~frame.solver
        /\ frame.raw = None
        /\ frame.composited = None

\* C3 witness: the solver ran on a match set of exactly 5
C3_Witness ==
  frame.solver /\ frame.gateMatches = 5 /\ frame.raw # None /\ frame.composited # None

\* C4: correspondence filter exactness.  For every frame keypoint i with
\* forward neighbours (d1, d2): d1 is in the filtered set iff
\* d1.distance <= 0.75 * d2.distance and the reverse list of d1's reference
\* keypoint is non-empty with its best entry pointing back to i; and the
\* set holds nothing else.
C4_FilterExact ==
  filtered # << >> =>
     /\ filtered[1] # None
     /\ LET good == filtered[1][1]
            fwd == matcherOut.fwd
            rev == matcherOut.rev
            InGood(d) == \E k \in 1..Len(good) : good[k] = d
        IN  /\ \A i \in 1..Len(fwd) :
                  InGood(fwd[i][1]) <=>
                     /\ 4 * fwd[i][1].distance <= 3 * fwd[i][2].distance
                     /\ Len(rev[fwd[i][1].trainIdx + 1]) > 0
                     /\ rev[fwd[i][1].trainIdx + 1][1].trainIdx = i - 1
            /\ \A k \in 1..Len(good) : \E i \in 1..Len(fwd) : good[k] = fwd[i][1]
            /\ Len(good) <= Len(fwd)

\* C4 witness: two keypoints pass the ratio test, the cross-check keeps one
C4_Witness ==
  /\ filtered # << >>
  /\ filtered[1] # None
  /\ Len(filtered[1][1]) = 1
  /\ \A i \in 1..Len(matcherOut.fwd) :
        4 * matcherOut.fwd[i][1].distance <= 3 * matcherOut.fwd[i][2].distance

\* the gate was evaluated on the latest tick and no transform came of it
NoTransformThisFrame ==
  /\ frame.gateMatches >= 0
  /\ \/ Len(frameData.goodMatches) < 5
     \/ averageQualityIndicator[1] * 100 < 6 * averageQualityIndicator[2]
     \/ (frame.solver /\ frame.raw = None)

C7_RejectedLeavesSmootherUntouched ==
  [][ ( /\ ops' = ops + 1
        /\ smoothed'.op = "add"
        /\ smoother.previous # None
        /\ RLt(outlierThreshold, TotalDiff(smoother.previous, smoothed'.input)) )
      => ( /\ smoother'.buffer = smoother.buffer
           /\ smoother'.previous = smoother.previous
           /\ smoothed'.rejected ) ]_vars

\* C7 witness: an input was rejected while the window held a transform
C7_Witness ==
  /\ smoothed.op = "add"
  /\ smoothed.rejected
  /\ Len(smoother.buffer) >= 1
  /\ smoothed.input # smoother.previous

\* a homography divided by its bottom-right element
Normalized(h) == IF h = None THEN None ELSE [i \in 1..Len(h) |-> RDiv(h[i], h[Len(h)])]

\* C8: scale invariance.  Fed every input times a nonzero constant, the
\* smoother takes the same accept/reject decisions and returns the same
\* filtered transform.
C8_ScaleInvariant ==
  /\ smoothed.rejected = twinSmoothed.rejected
  /\ Normalized(smoothed.output) = Normalized(twinSmoothed.output)

\* C9: resolution step rule.  On each processed tick the width becomes
\* max(width - step, min) if 1000/elapsed is below the target rate,
\* width + step if above, and stays if equal.
C9_ResolutionStepRule ==
  [][ (setup = "running" /\ ~processing /\ frame'.elapsed >= 0) =>
        LET e == frame'.elapsed
            w == currentProcessingCanvasWidth
            lower == IF w - 20 >= 250 THEN w - 20 ELSE 250
        IN  /\ frame'.widthBefore = w
            /\ (e > 0 /\ 1000 < 10 * e) => currentProcessingCanvasWidth' = lower
            /\ (e = 0 \/ 1000 > 10 * e) => currentProcessingCanvasWidth' = w + 20
            /\ (e > 0 /\ 1000 = 10 * e) => currentProcessingCanvasWidth' = w ]_vars

\* C9 witness: 5 fps at width 300 gave width 280
C9_Witness ==
  /\ frame.elapsed = 200
  /\ frame.widthBefore = 300
  /\ currentProcessingCanvasWidth = 280

\* C10: in every reachable state the processing width is at least
\* minProcessingCanvasWidth.
C10_WidthAtLeastMinimum == currentProcessingCanvasWidth >= minProcessingCanvasWidth

\* C11: controller stability.  Under frame times alternating above and below
\* the target, from the second tick on the width stays within one step of a
\* stable value (it is the minimum width or one step above it) and moves by
\* at most one step per tick; under a constant frame time the width never
\* reverses direction, so it does not oscillate.
C11_ControllerStable ==
  [][ (setup = "running" /\ frame'.elapsed >= 0) =>
        LET w == currentProcessingCanvasWidth
            next == currentProcessingCanvasWidth'
        IN  /\ (frameTimes = "alternating" /\ frame.seq >= 2) =>
                  /\ Abs(next - w) <= processingCanvasWidthStep
                  /\ next \in {minProcessingCanvasWidth,
                               minProcessingCanvasWidth + processingCanvasWidthStep}
            /\ (frameTimes = "constant" /\ frame.seq >= 1) =>
                  (next - w) * (w - frame.widthBefore) >= 0 ]_vars

\* C11 witness: under alternating frame times the width went 270, 250
C11_Witness ==
  /\ frameTimes = "alternating"
  /\ frame.seq >= 2
  /\ frame.widthBefore = minProcessingCanvasWidth + processingCanvasWidthStep
  /\ currentProcessingCanvasWidth = minProcessingCanvasWidth

\* C12: qualityHistory is a bounded FIFO.  It never holds more than
\* nFramesForAveraging = 6 scores; a tick that appends a score leaves the
\* earlier scores in order, evicting the oldest one exactly when the history
\* was full; a tick that appends none leaves the history as it was.
C12_QualityHistoryFifo ==
  [][ setup = "running" =>
        /\ Len(qualityHistory') <= 6
        /\ IF frame'.score # None
           THEN /\ qualityHistory' =
                     IF Len(qualityHistory) < 6
                     THEN Append(qualityHistory, frame'.score)
                     ELSE Append(Tail(qualityHistory), frame'.score)
                /\ frame'.evicted =
                     IF Len(qualityHistory) < 6 THEN None ELSE Head(qualityHistory)
           ELSE qualityHistory' = qualityHistory ]_vars

\* C12 witness: a score was appended to a full history and a different
\* score was evicted
C12_Witness ==
  /\ Len(qualityHistory) = 6
  /\ frame.score # None
  /\ frame.evicted # None
  /\ frame.evicted # frame.score

C14_EveryFrameScored ==
  (frame.outcome = "done" /\ frame.captured /\ frame.thrown = "none") =>
     /\ frame.score # None
     /\ qualityHistory # << >>
     /\ Scenes[frameData.image].fwd = << >> => frame.score = RInt(0)

\* C15: the indicator opacity is 1 for averageQuality <= 0.06, 0 for
\* averageQuality >= 0.075, (0.075 - averageQuality) / 0.015 in between;
\* it lies in [0,1] and does not increase with averageQuality; quality 0.06
\* gives 1 and quality 0.0675 gives 0.5.
C15_IndicatorOpacity ==
  frame.outcome = "indicator" =>
     LET q == averageQualityIndicator
         o == frame.indicator
         low == R(6, 100)
         fade == R(15, 1000)
         high == RAdd(low, fade)
     IN  /\ RLe(q, low) => o = RInt(1)
         /\ RLe(high, q) => o = RInt(0)
         /\ (RLt(low, q) /\ RLt(q, high)) => o = RDiv(RSub(high, q), fade)
         /\ RLe(RInt(0), o)
         /\ RLe(o, RInt(1))
         /\ \A p \in QualityGrid :
               RLe(q, p) => RLe(calculateErrorMessageOpacity(p), o)
         /\ calculateErrorMessageOpacity(R(6, 100)) = RInt(1)
         /\ calculateErrorMessageOpacity(R(675, 10000)) = R(1, 2)

\* C15 witness: the indicator was drawn for a quality inside the fade range
C15_Witness ==
  /\ frame.outcome = "indicator"
  /\ RLt(RInt(0), frame.indicator)
  /\ RLt(frame.indicator, RInt(1))

\* C16: whenever the overlay is drawn, its opacity is 1 minus the opacity
\* the indicator was drawn with on the same tick, so the two are never both
\* fully visible.
C16_OpacitiesComplementary ==
  frame.composited # None =>
     /\ frame.indicator # None
     /\ frame.overlayOpacity = RSub(RInt(1), frame.indicator)
     /\ ~(frame.overlayOpacity = RInt(1) /\ frame.indicator = RInt(1))

\* C16 witness: overlay and indicator were both drawn partly transparent
C16_Witness ==
  /\ frame.composited # None
  /\ RLt(RInt(0), frame.overlayOpacity)
  /\ RLt(frame.overlayOpacity, RInt(1))

C18_BuffersMatchCanvas ==
  (setup = "running" /\ frameData.allocated) =>
     /\ frameData.live
     /\ frameData.width = currentProcessingCanvasWidth
     /\ frameData.height * 4 <= currentProcessingCanvasWidth * 3
     /\ currentProcessingCanvasWidth * 3 < (frameData.height + 1) * 4

\* C18 witness: a tick changed the width and captured a frame into new buffers
C18_Witness ==
  /\ frame.captured
  /\ frame.widthBefore # currentProcessingCanvasWidth
  /\ frameData.allocated
  /\ frameData.width = currentProcessingCanvasWidth
  /\ frameData.keypoints = "five"

\* C19: when allocating the new buffers fails during a resolution change,
\* the width is back at its previous value and valid buffers are in use.
C19_RevertsOnAllocationFailure ==
  /\ frame.allocFailed => currentProcessingCanvasWidth = frame.widthBefore
  /\ (setup = "running" /\ frameData.live) => frameData.allocated

\* C20: setup failure is fatal.  After a failed setup step startProcessing
\* has not been called and the promise of initialize() is rejected.
C20_SetupFailureFatal ==
  (frame.outcome = "setup" /\ frame.thrown # "none") =>
     /\ started = 0
     /\ pending = 0
     /\ setup = "rejected"

\* C21: no per-frame leak.  Every native object a processed tick constructs
\* (buffers, keypoint vector, descriptor matrix, detector mask, match
\* vectors, point arrays, homography, warped overlay) is deleted, so a tick
\* deletes as many native objects as it constructs and the number of live
\* ones does not grow with the frames, resolution changes included.
C21_NoPerFrameLeak ==
  Processed(frame) => frame.created = frame.deleted

\* C22: a frame's tracking computation runs to completion inside its tick.
\* When the gate of a tick is evaluated on a frame with descriptors, the
\* keypoints are that frame's, its matches are filtered and its score is the
\* newest entry of qualityHistory: the gate sees that match set and the
\* average over that history.  A tick that returns has set and cleared
\* processing within the one step, so no other tick runs in between.
C22_RunsToCompletion ==
  /\ ( /\ frame.outcome = "done"
       /\ frame.thrown = "none"
       /\ frame.gateMatches >= 0
       /\ Scenes[frameData.image].fwd # << >> ) =>
        /\ frameData.keypoints = frameData.image
        /\ frame.score = FilterResult[frameData.image][2]
        /\ frameData.goodMatches = FilterResult[frameData.image][1]
        /\ frame.gateMatches = Len(FilterResult[frameData.image][1])
        /\ qualityHistory # << >>
        /\ qualityHistory[Len(qualityHistory)] = frame.score
        /\ frame.gateQuality = AverageQuality(qualityHistory)
  /\ (Processed(frame) /\ frame.outcome # "escaped") => ~processing

\* C22 witness: the solver ran on the five matches of the frame just
\* captured, with that frame's score already in a history of several
C22_Witness ==
  /\ frame.outcome = "done"
  /\ frame.thrown = "none"
  /\ frameData.image = "five"
  /\ frame.gateMatches = 5
  /\ frame.solver
  /\ frame.score # None
  /\ Len(qualityHistory) >= 2
  /\ ~processing

\* C23: outlier decision rule.  The first transform given to isOutlier is
\* accepted and becomes the reference; a later one is rejected iff the sum
\* of the absolute elementwise differences from the reference is strictly
\* greater than the threshold 0.5; an accepted one, a difference of exactly
\* 0.5 included, replaces the reference and a rejected one leaves it.
C23_OutlierRule ==
  [][ (ops' = ops + 1 /\ smoothed'.op = "add") =>
        LET h == smoothed'.input
            ref == smoother.previous
            rejected == smoothed'.rejected
        IN  /\ ref = None => (~rejected /\ smoother'.previous = h)
            /\ ref # None =>
                  /\ rejected <=>
                        RLt(R(1, 2), RSum([i \in 1..9 |-> RAbs(RSub(h[i], ref[i]))]))
                  /\ smoother'.previous = IF rejected THEN ref ELSE h ]_vars

\* C23 witness: with H1 as the reference, H5 at a distance of exactly 0.5
\* was accepted and is the reference now
C23_Witness ==
  /\ smoothed.op = "add"
  /\ ~smoothed.rejected
  /\ smoothed.input = H5
  /\ smoother.previous = H5
  /\ Len(smoother.buffer) >= 2
  /\ smoother.buffer[Len(smoother.buffer) - 1] = H1

\* C24: after k accepted transforms the window holds the last min(k, 5) of
\* them in acceptance order, never more than 5; getAverageHomography
\* returns their elementwise mean, which for a single entry is that entry.
C24_WindowMean ==
  LET acc == smoothed.accepted
      k == Len(acc)
      n == IF k <= 5 THEN k ELSE 5
      buf == smoother.buffer
  IN  /\ Len(buf) = n
      /\ \A i \in 1..n : buf[i] = acc[k - n + i]
      /\ (smoothed.op = "get" /\ n >= 1) =>
            /\ smoothed.average # None
            /\ \A j \in 1..9 :
                  smoothed.average[j] =
                     RDiv(RSum([i \in 1..n |-> acc[k - n + i][j]]), RInt(n))
            /\ n = 1 => smoothed.average = acc[k]

\* C24 witness: six transforms were accepted, the first of them differing
\* from the second, and the mean of the five in the window was taken
C24_Witness ==
  /\ Len(smoothed.accepted) = 6
  /\ smoothed.accepted[1] # smoothed.accepted[2]
  /\ smoothed.accepted[5] # smoothed.accepted[6]
  /\ smoothed.op = "get"
  /\ Len(smoother.buffer) = 5
  /\ smoothed.average # None

\* C25: EMA stage.  No smoothed transform exists before the first call of
\* filter; the first call returns its input (the window average) unchanged
\* and stores it; every later call returns 0.1 * input + 0.9 * previous
\* elementwise and stores exactly that as the one persisted smoothed
\* transform; no other call changes it.
C25_EmaStage ==
  [][ /\ smoother.ema = smoothed.output
      /\ smoother'.ema = smoothed'.output
      /\ (ops' = ops + 1 /\ smoothed'.op = "get" /\ smoothed'.average # None) =>
            LET input == smoothed'.average
                previous == smoother.ema
                returned == smoothed'.output
            IN  /\ previous = None => returned = input
                /\ previous # None =>
                      \A j \in 1..9 :
                         returned[j] = RAdd(RMul(R(1, 10), input[j]),
                                            RMul(R(9, 10), previous[j]))
                /\ smoother'.ema = returned
      /\ (smoothed'.op # "get" \/ smoothed'.average = None) =>
            smoother'.ema = smoother.ema ]_vars

\* C25 witness: a later call blended a window average with a different
\* previous result and the blend is what is stored
C25_Witness ==
  /\ smoothed.op = "get"
  /\ smoothed.average # None
  /\ smoothed.output # smoothed.average
  /\ smoother.ema = smoothed.output

\* C26: getFilteredHomography returns no transform (null) if and only if no
\* transform has been accepted so far; while none has been accepted the EMA
\* state stays unseeded; once one has been accepted the window is never
\* empty again, so every later call returns a transform.
C26_NullIffNothingAccepted ==
  /\ smoothed.op = "get" => (smoothed.output = None <=> smoothed.accepted = << >>)
  /\ smoothed.accepted = << >> => (smoother.ema = None /\ smoother.buffer = << >>)
  /\ smoothed.accepted # << >> => smoother.buffer # << >>

\* C26 witness: two calls on a smoother that has accepted nothing returned
\* null and left the EMA state unseeded
C26_Witness ==
  /\ smoothed.op = "get"
  /\ ops >= 2
  /\ smoothed.accepted = << >>
  /\ smoothed.output = None
  /\ smoother.ema = None

\* C27: recovery after a jump.  Whatever the smoother's state, once every
\* frame feeds the same raw transform T, T is eventually accepted into the
\* sliding window and stays there: the outlier stage cannot reject it
\* forever.
C27_RecoversAfterJump ==
  <>[](smoothed.input # None =>
         \E i \in DOMAIN smoother.buffer : smoother.buffer[i] = smoothed.input)

\* C28: direction of adjustment.  A frame measured below targetFrameRate
\* never increases the processing width and a frame measured above it never
\* decreases it, the first frame after construction included.
C28_DirectionOfAdjustment ==
  [][ (setup = "running" /\ ~processing /\ frame'.elapsed >= 0) =>
        LET e == frame'.elapsed
        IN  /\ (e > 0 /\ 1000 < 10 * e) =>
                  currentProcessingCanvasWidth' <= currentProcessingCanvasWidth
            /\ (e = 0 \/ 1000 > 10 * e) =>
                  currentProcessingCanvasWidth' >= currentProcessingCanvasWidth ]_vars

\* C29: no stale correspondences.  The match set the gate sees on a tick
\* holds only matches computed from the keypoints of the frame captured on
\* that tick; when the tick produced no match set (no descriptors, or an
\* exception in detection or filtering) the gate sees an empty set and the
\* solver does not run.
C29_NoStaleCorrespondences ==
  frame.gateMatches >= 0 =>
     /\ frame.gateMatches > 0 =>
           /\ frame.updated
           /\ frameData.keypoints = frameData.image
           /\ frameData.goodMatches = FilterResult[frameData.image][1]
     /\ frame.score = None => (frame.gateMatches = 0 /\ ~frame.solver)

\* C30 as claimed: whenever the gate passes and the overlay is composited
\* its opacity is strictly greater than 0, and whenever the indicator is
\* fully opaque no homography is estimated and no overlay is drawn.
C30_OverlayOpacityPositive ==
  /\ frame.composited # None => RLt(RInt(0), frame.overlayOpacity)
  /\ frame.indicator = RInt(1) => (~frame.solver /\ frame.composited = None)

\* C30 as amended: a composited overlay has an opacity of at least 0, which
\* is 0 exactly when averageQuality equals the threshold 0.06; and when the
\* indicator is fully opaque no homography is estimated and no overlay is
\* drawn unless averageQuality equals 0.06, where the gate passes with an
\* indicator opacity of 1.
C30_OverlayVisibleAboveThreshold ==
  /\ frame.composited # None =>
        /\ RLe(RInt(0), frame.overlayOpacity)
        /\ frame.overlayOpacity = RInt(0) <=> frame.gateQuality = R(6, 100)
        /\ frame.gateQuality # R(6, 100) => frame.indicator # RInt(1)
  /\ (frame.indicator = RInt(1) /\ frame.gateQuality # R(6, 100)) =>
        (~frame.solver /\ frame.composited = None)

\* C30 witness: at an average quality of exactly 0.06 the solver ran and the
\* overlay was composited with opacity 0 under a fully opaque indicator
C30_Witness ==
  /\ frame.gateQuality = R(6, 100)
  /\ frame.solver
  /\ frame.composited # None
  /\ frame.overlayOpacity = RInt(0)
  /\ frame.indicator = RInt(1)

\* C31: after every update of qualityHistory, averageQualityIndicator is the
\* arithmetic mean of exactly the scores the history holds, so it lies in
\* [0,1] when they do; before the first update it is 0.
C31_AverageIsMean ==
  /\ qualityHistory = << >> => averageQualityIndicator = RInt(0)
  /\ qualityHistory # << >> =>
        /\ RMul(averageQualityIndicator, RInt(Len(qualityHistory))) = RSum(qualityHistory)
        /\ (\A i \in 1..Len(qualityHistory) :
               RLe(RInt(0), qualityHistory[i]) /\ RLe(qualityHistory[i], RInt(1)))
           => (RLe(RInt(0), averageQualityIndicator) /\ RLe(averageQualityIndicator, RInt(1)))

\* C31 witness: a tick appended a score to a full history of differing
\* scores, evicting one, and the average is that of the six kept
C31_Witness ==
  /\ Len(qualityHistory) = 6
  /\ frame.score # None
  /\ frame.evicted # None
  /\ frame.evicted # frame.score
  /\ qualityHistory[1] # qualityHistory[2]
  /\ RLt(RInt(0), averageQualityIndicator)

\* C32: a frame keypoint whose forward neighbour list has fewer than 2
\* entries is skipped, neither a candidate nor counted in the score, and
\* the other keypoints of the frame are filtered and scored as usual.
C32_ShortListsSkipped ==
  filtered # << >> =>
     /\ filtered[1] # None
     /\ LET fwd == matcherOut.fwd
            rev == matcherOut.rev
            full == {i \in 1..Len(fwd) : Len(fwd[i]) >= 2}
            passes(i) == 4 * fwd[i][1].distance <= 3 * fwd[i][2].distance
            kept == {i \in full :
                       /\ passes(i)
                       /\ Len(rev[fwd[i][1].trainIdx + 1]) > 0
                       /\ rev[fwd[i][1].trainIdx + 1][1].trainIdx = i - 1}
            good == filtered[1][1]
        IN  /\ Len(good) = Cardinality(kept)
            /\ \A i \in kept : \E k \in 1..Len(good) : good[k] = fwd[i][1]
            /\ full # {} =>
                  filtered[1][2] = R(Cardinality({i \in full : passes(i)}),
                                     Cardinality(full))

\* C33: on every tick that gets as far as the overlay stage (the camera frame
\* was captured and drawn on the displaying canvas), whether or not the solver
\* runs and whatever it returns, the indicator is drawn with the opacity
\* calculateErrorMessageOpacity gives for the averageQualityIndicator of that
\* tick, and the gate is tested on that same average only on ticks that drew it
ReachedOverlayStage(f) ==
  \/ f.outcome = "done"
  \/ f.outcome \in {"abandoned", "escaped"} /\ f.thrown \in {"estimate", "blend"}

C33_IndicatorEveryFrame ==
  /\ ReachedOverlayStage(frame) =>
        /\ frame.indicator # None
        /\ frame.indicator = calculateErrorMessageOpacity(averageQualityIndicator)
  /\ frame.gateQuality # None =>
        /\ frame.indicator # None
        /\ frame.gateQuality = averageQualityIndicator

C33_Witness ==
  /\ frame.outcome = "done"
  /\ frame.gateMatches \in 0..(minMatchesForHomography - 1)
  /\ ~frame.solver
  /\ frame.raw = None
  /\ qualityHistory # << >>
  /\ frame.indicator = RInt(0)

\* C34: on the interval-driven page, an exception thrown after the guard is
\* taken, by the capture or by the FrameData constructor, leaves processing
\* false once the call is over
C34_GuardReleasedAfterThrow ==
  (variant = "interval" /\ pc = "idle" /\ call.thrown \in {"capture", "construct"})
     => ~processing

\* C35: frameQueue never holds more than one frame and is empty whenever
\* processing is false; a call that is over has shifted the one frame it
\* pushed, whichever stage threw
C35_QueueDrained ==
  /\ Len(frameQueue) <= 1
  /\ ~processing => frameQueue = << >>
  /\ pc \in {"idle", "drained"} => call.shifted = call.pushed
  /\ call.pushed <= 1

\* C35 witness: a call whose goodMatches.size() threw in processQueue is over,
\* its frame was pushed and shifted, and the guard is released
C35_Witness ==
  /\ pc = "idle"
  /\ ~processing
  /\ call.outcome = "done"
  /\ call.thrown = "size"
  /\ call.pushed = 1
  /\ call.shifted = 1
  /\ frameQueue = << >>

====
